---- MODULE Spec2Model ----
(***************************************************************************)
(* AutoCogni: the LangGraph agent loop of app/core/graph.py                *)
(* (vision_node -> reasoning_node -> plan_validation_node ->               *)
(* should_continue -> execution_node), the plan parser inside              *)
(* plan_validation_node, and the module-level BrowserController of         *)
(* app/computer_agent/playwright_tools.py.                                 *)
(*                                                                         *)
(* Text is modelled as a sequence of tokens: the opening fence             *)
(* "```json\n", the closing fence "\n```", and chunks of other text, each  *)
(* chunk being one JSON document, undecodable prose, or brackets nested     *)
(* deeper than the interpreter recurses.  A chunk carries the value        *)
(* json.loads would decode it to.                                          *)
(*                                                                         *)
(* Spec is one run of the graph, with start() and stop() called on the     *)
(* controller from outside; SpecCancel adds the cancellation of the run;   *)
(* SpecParse is plan_validation_node on one raw text; SpecController is the *)
(* controller's methods called in any order, any of them failing, with the *)
(* execution_node of concurrent runs operating on it; SpecMemory is the    *)
(* memory manager's methods called in any order; SpecCycles is the graph's *)
(* nodes over two cycles, on few reasoning outputs; SpecStart is start()   *)
(* called by concurrent tasks, interleaved at its awaits.                  *)
(***************************************************************************)
EXTENDS Integers, Sequences, FiniteSets, TLC

VARIABLES
    node,               \* the graph node about to run, "END", "raised" or "cancelled"
    history,            \* AgentState["history"]
    vision_analysis,    \* AgentState["vision_analysis"]
    abstract_plan_raw,  \* AgentState["abstract_plan_raw"]
    concrete_plan,      \* AgentState["concrete_plan"]
    intermediate_goal,  \* AgentState["intermediate_goal"]
    execution_result,   \* AgentState["execution_result"]
    error_message,      \* AgentState["error_message"]
    final_response,     \* AgentState["final_response"]
    previous_error,     \* the previous_error argument of the latest reasoning call
    playwright,         \* browser_controller.playwright (0 is None, 1 a handle)
    browser,            \* browser_controller.browser    (0 is None)
    page,               \* browser_controller.page       (0 is None)
    calls,              \* backend operations invoked by the latest execution_node run
    last_call,          \* the latest call of a browser_controller method made from
                        \* outside execution_node: what it did and how it ended
    users,              \* the session_ids of the runs whose execution_node has
                        \* operated on the page browser_controller holds
    store,              \* the Mem0 store: the records it holds for each user_id
    memory_call,        \* the latest call of a memory_manager method
    screenshot_base64,  \* AgentState["screenshot_base64"]: the version of the
                        \* screen the capture it holds was taken of
    screen,             \* the version of the screen: 0 as the request's capture
                        \* shows it, 1 once an executed action has acted on it
    pc,                 \* for each caller of start() running as a task of its own:
                        \* the await it is suspended at, "idle" before its call
                        \* and "done" after it
    acquired            \* how many drivers, browsers and pages such calls acquired

vars == <<node, history, vision_analysis, abstract_plan_raw, concrete_plan,
          intermediate_goal, execution_result, error_message, final_response,
          previous_error, playwright, browser, page, calls, last_call, users,
          store, memory_call, screenshot_base64, screen, pc, acquired>>

agent_state == <<history, vision_analysis, abstract_plan_raw, concrete_plan,
                 intermediate_goal, execution_result, error_message,
                 final_response, previous_error>>

controller_fields == <<playwright, browser, page>>

memory_fields == <<store, memory_call>>

start_fields == <<pc, acquired>>

-----------------------------------------------------------------------------
(* Bounds of the model *)

\* longest 'plan' list of a JSON document
MaxPlanLen == 2
\* longest raw text, in tokens, given to the parser on its own
MaxRawLen == 6
\* the agent loop makes no further model call once history is this long
MaxHistory == 5
\* most records the memory store holds for one session
MaxMemories == 2
\* in the loop over several cycles, no reasoning call is made once history is
\* this long
MaxCycleHistory == 7
\* the tasks that call start() concurrently
MaxCallers == 2

-----------------------------------------------------------------------------
(* Values *)

\* Python's None for the optional tuple-valued fields, and for the string-valued ones
None == <<>>
NoneStr == "None"
\* a dict key that is not there
Absent == "<absent>"

Min(S) == CHOOSE x \in S : \A y \in S : x <= y
Max(S) == CHOOSE x \in S : \A y \in S : x >= y

-----------------------------------------------------------------------------
(* Plans as the reasoning model writes them *)

\* the tool names the dispatcher recognizes, and one it does not
Tools == {"navigate", "type_text", "click", "scroll", "finish_task", "hover"}

\* An element of the 'plan' list of a JSON document.  is_dict: the element is a
\* JSON object; has_tool, has_parameters: it has the key; params_is_dict: the
\* value of 'parameters' is an object; selector: 'parameters' has a "selector"
\* key; result: the value of its "result" key.
Element(is_dict, has_tool, has_parameters, params_is_dict, tool, selector, result) ==
    [is_dict |-> is_dict, has_tool |-> has_tool, has_parameters |-> has_parameters,
     params_is_dict |-> params_is_dict, tool |-> tool, selector |-> selector,
     result |-> result]

WellFormed(tool, selector, result) ==
    Element(TRUE, TRUE, TRUE, TRUE, tool, selector, result)

WellFormedElements ==
    { WellFormed("navigate", FALSE, Absent),
      WellFormed("type_text", TRUE, Absent),
      WellFormed("click", TRUE, Absent),
      WellFormed("click", FALSE, Absent),
      WellFormed("scroll", FALSE, Absent),
      WellFormed("finish_task", FALSE, "r1"),
      WellFormed("finish_task", FALSE, Absent),
      WellFormed("hover", FALSE, Absent) }

MalformedElements ==
    { Element(FALSE, FALSE, FALSE, FALSE, Absent, FALSE, Absent),
      Element(TRUE, FALSE, TRUE, TRUE, Absent, FALSE, Absent),
      Element(TRUE, TRUE, FALSE, FALSE, "scroll", FALSE, Absent),
      Element(TRUE, TRUE, TRUE, FALSE, "scroll", FALSE, Absent) }

Elements == WellFormedElements \cup MalformedElements

SeqsUpTo(S, n) == UNION { [1..k -> S] : k \in 0..n }

\* schemas.ActionDetail: the tool and what the dispatcher reads of the parameters
ActionDetail(tool, selector, result) ==
    [tool |-> tool, selector |-> selector, result |-> result]

-----------------------------------------------------------------------------
(* Text *)

\* A token of text.  kind "open" is "```json\n", "close" is "\n```", "prose" is
\* text json.loads rejects, "deep" is brackets nested deeper than the
\* interpreter's recursion limit ("[[[[..."), "json" is one JSON document:
\* is_object says it decodes to a dict, goal is the value of its
\* "intermediate_goal" key, has_plan and plan_is_list describe its "plan" key,
\* plan is the list.
Token(kind, is_object, goal, has_plan, plan_is_list, plan) ==
    [kind |-> kind, is_object |-> is_object, goal |-> goal, has_plan |-> has_plan,
     plan_is_list |-> plan_is_list, plan |-> plan]

OPEN == Token("open", FALSE, Absent, FALSE, FALSE, <<>>)
CLOSE == Token("close", FALSE, Absent, FALSE, FALSE, <<>>)
Prose == Token("prose", FALSE, Absent, FALSE, FALSE, <<>>)
Deep == Token("deep", FALSE, Absent, FALSE, FALSE, <<>>)
\* a JSON document that is not an object, such as []
JsonArray == Token("json", FALSE, Absent, FALSE, FALSE, <<>>)

JsonObject(goal, has_plan, plan_is_list, plan) ==
    Token("json", TRUE, goal, has_plan, plan_is_list, plan)

Goals == {"g1", Absent}

\* a fallback text that carries an 'intermediate_goal'
FallbackWithGoal == JsonObject("g1", TRUE, TRUE, <<>>)

\* '{ "thought": "Error from OpenAI.", "plan": [] }': the text
\* generate_thought_and_action returns when the reasoning backend fails
Fallback == JsonObject(Absent, TRUE, TRUE, <<>>)

\* the JSON documents with a 'plan' list over the given elements
PlanDocs(elements, n) ==
    { JsonObject(g, TRUE, TRUE, p) : g \in Goals, p \in SeqsUpTo(elements, n) }

\* the other shapes of document: no 'plan' key, a 'plan' that is no list, no
\* object, no JSON
OddDocs ==
    { JsonObject(g, FALSE, FALSE, <<>>) : g \in Goals }
        \cup { JsonObject(g, TRUE, FALSE, <<>>) : g \in Goals }
        \cup { JsonArray, Prose, Deep }

Docs == PlanDocs(Elements, MaxPlanLen) \cup OddDocs

Wrap(text) == <<OPEN>> \o text \o <<CLOSE>>

-----------------------------------------------------------------------------
(* plan_validation_node: the plan parser *)

\* re.search(r"```json\n(.*)\n```", raw, re.DOTALL): the leftmost opening fence
\* that has a closing fence after it, and, the group being greedy, the text up
\* to the LAST closing fence.  Without a match the whole text is the payload.
StripFence(raw) ==
    LET opens == { i \in 1..Len(raw) : raw[i].kind = "open" }
        first == Min(opens)
        closes == { j \in 1..Len(raw) : raw[j].kind = "close" /\ j > first }
    IN  IF opens = {} \/ closes = {}
        THEN raw
        ELSE SubSeq(raw, first + 1, Max(closes) - 1)

\* json.loads accepts a text that is exactly one JSON document
Decodable(text) == Len(text) = 1 /\ text[1].kind = "json"

\* the exception json.loads raises on the text, Absent when it decodes it: the
\* scanner recurses into leading brackets before it can reject what follows
LoadsError(text) ==
    IF Decodable(text) THEN Absent
    ELSE IF text # <<>> /\ text[1].kind = "deep" THEN "RecursionError"
    ELSE "JSONDecodeError"

\* except (json.JSONDecodeError, ValueError, TypeError): the classes caught,
\* pydantic's ValidationError being a ValueError
Catches(exc) == exc \in {"JSONDecodeError", "ValueError", "TypeError", "ValidationError"}

\* the exception plan_validation_node lets out for a raw reasoning output,
\* Absent when it returns
Escapes(raw) ==
    IF LoadsError(StripFence(raw)) = Absent \/ Catches(LoadsError(StripFence(raw)))
    THEN Absent
    ELSE LoadsError(StripFence(raw))

\* ElementError with the check of the element's shape left out
ElementErrorUnchecked(action) ==
    IF action.is_dict /\ action.has_tool /\ action.has_parameters
            /\ ~action.params_is_dict
    THEN "validation error for ActionDetail"
    ELSE Absent

\* the check of one plan element, and ActionDetail's own validation of it:
\* the reason it is refused, or Absent
ElementError(action) ==
    IF ~action.is_dict \/ ~action.has_tool \/ ~action.has_parameters
    THEN "Invalid action format in plan. Expected 'tool' and 'parameters' keys."
    ELSE IF ~action.params_is_dict
    THEN "validation error for ActionDetail"
    ELSE Absent

\* the loop over plan_to_validate: the first refusal, or Absent
RECURSIVE FirstElementError(_)
FirstElementError(plan_to_validate) ==
    IF plan_to_validate = <<>>
    THEN Absent
    ELSE IF ElementError(Head(plan_to_validate)) # Absent
    THEN ElementError(Head(plan_to_validate))
    ELSE FirstElementError(Tail(plan_to_validate))

\* validated_actions when no element is refused
ValidatedActions(plan_to_validate) ==
    [ i \in 1..Len(plan_to_validate) |->
        ActionDetail(plan_to_validate[i].tool, plan_to_validate[i].selector,
                     plan_to_validate[i].result) ]

ParseOk(actions, goal) ==
    [concrete_plan |-> actions, intermediate_goal |-> goal, error_message |-> None]

\* "Failed to parse or validate plan object: {e}. ..."
ParseFailed(reason) ==
    [concrete_plan |-> <<>>, intermediate_goal |-> NoneStr,
     error_message |-> <<"Failed to parse or validate plan object", reason>>]

\* the dict plan_validation_node returns for a raw reasoning output, when it
\* returns
PlanValidation(raw) ==
    LET clean_plan_str == StripFence(raw)
        parsed_object == clean_plan_str[1]
    IN  IF ~Decodable(clean_plan_str)
        THEN ParseFailed(LoadsError(clean_plan_str))
        ELSE IF ~parsed_object.is_object \/ parsed_object.goal = Absent
                    \/ ~parsed_object.has_plan
        THEN ParseFailed("Response is not a JSON object with 'intermediate_goal' and 'plan' keys.")
        ELSE IF ~parsed_object.plan_is_list
        THEN ParseFailed("The 'plan' key must contain a list of actions.")
        ELSE IF FirstElementError(parsed_object.plan) # Absent
        THEN ParseFailed(FirstElementError(parsed_object.plan))
        ELSE ParseOk(ValidatedActions(parsed_object.plan), parsed_object.goal)

\* should_continue: the node after plan_validation_node
HasFinishTask(plan) == \E i \in 1..Len(plan) : plan[i].tool = "finish_task"

\* should_continue without its second branch: a plan with finish_task goes on
\* to execution
should_continue_without_end(error, plan) ==
    IF error # None THEN "reasoning_node" ELSE "execution_node"

\* should_continue without its first branch: a refused plan goes on to execution
should_continue_to_execution(error, plan) ==
    IF HasFinishTask(plan) THEN "END" ELSE "execution_node"

should_continue(error, plan) ==
    IF error # None THEN "reasoning_node"
    ELSE IF HasFinishTask(plan) THEN "END"
    ELSE "execution_node"

-----------------------------------------------------------------------------
(* history *)

\* One trace string of history: its fixed wording (kind) and the strings
\* formatted into it.  The entry of a raw reasoning output keeps the wording
\* alone: the text itself is abstract_plan_raw until the next reasoning call.
Entry(kind, msg) == [kind |-> kind, msg |-> msg]

VisionEntry(analysis) == Entry("Vision Analysis", <<analysis>>)
RawOutputEntry(raw) == Entry("LLM Raw Output", <<>>)
ExecutingEntry(goal) == Entry("Executing plan for intermediate goal", <<goal>>)
ErrorEntry(error_msg) == Entry("ERROR", error_msg)
FinishedEntry(output) == Entry("Task finished with result", <<output>>)
SuccessEntry(goal) == Entry("Execution successful for intermediate goal", <<goal>>)
\* a record the memory store returned, seeding history
MemoryEntry == Entry("memory", <<>>)

-----------------------------------------------------------------------------
(* BrowserController *)

\* _ensure_browser_is_running passes
BrowserIsRunning(pg, br) == pg # 0 /\ br # 0

\* the RuntimeError of _ensure_browser_is_running
NotStarted == "RuntimeError: Browser is not started. Please call .start() before using browser actions."

\* A call of a method of browser_controller: the method, the exception it
\* raised (Absent: it returned), what it returned (Absent: it raised), and the
\* Playwright operations it performed, in order.
LastCall(op, raised, returned, performed) ==
    [op |-> op, raised |-> raised, returned |-> returned, performed |-> performed]

NoCall == LastCall("none", Absent, Absent, <<>>)

\* the tasks calling start() concurrently, each known by a number, which also
\* names the handles its call acquires
Callers == 1..MaxCallers

Acquired(drivers, browsers, pages) ==
    [driver |-> drivers, browser |-> browsers, page |-> pages]

NothingAcquired == Acquired(0, 0, 0)

\* the methods of BrowserController that act on the page
ActingOps == {"navigate", "click", "type_text"}

\* what start() performs when it does not return early
StartOps == <<"async_playwright().start", "chromium.launch", "browser.new_page">>

\* what stop() performs: it closes the browser and stops the driver it holds
StopOps(pw, br) ==
    (IF br # 0 THEN <<"browser.close">> ELSE <<>>)
        \o (IF pw # 0 THEN <<"playwright.stop">> ELSE <<>>)

\* the run of the graph modelled by the graph's nodes, and the runs there may be
session_id == "s1"
SessionIds == {"s1", "s2"}

\* the session using the page, when the operations of an execution_node run
\* include one on browser_controller
BrowserUsers(session, operations) ==
    IF \E i \in 1..Len(operations) : operations[i].backend = "browser"
    THEN {session} ELSE {}

-----------------------------------------------------------------------------
(* execution_node: the dispatcher *)

NoValidPlan == <<"Execution failed: No valid plan was provided.">>

\* "Error executing action '{tool_name}' with params {params}. Reason: {e}"
ExecError(tool_name, reason) == <<"Error executing action", tool_name, reason>>

\* a backend operation the dispatcher invoked for the action at position pos
Call(pos, tool, backend, raised) ==
    [pos |-> pos, tool |-> tool, backend |-> backend, raised |-> raised]

\* one of the operations invoked returned: it has acted on the screen
Acted(operations) == \E j \in 1..Len(operations) : ~operations[j].raised

\* The try block for one action.  running: the controller passes
\* _ensure_browser_is_running; raises: the backend operation, if one is invoked,
\* raises.  outcome is "ok" or "error"; reason is the exception; call is the
\* backend operation invoked, if any; hist is what the block appends to history.
Dispatch(pos, action, running, raises) ==
    LET Raised(reason, call, hist) ==
            [outcome |-> "error", reason |-> reason, call |-> call, hist |-> hist]
        Invoked(backend) ==
            IF raises
            THEN Raised("backend error", <<Call(pos, action.tool, backend, TRUE)>>, <<>>)
            ELSE [outcome |-> "ok", reason |-> Absent,
                  call |-> <<Call(pos, action.tool, backend, FALSE)>>, hist |-> <<>>]
        output == IF action.result = Absent
                  THEN "Task completed successfully." ELSE action.result
    IN  CASE action.tool = "navigate" ->
                \* browser_controller.launch(): BrowserController has no such method
                Raised("AttributeError: no attribute 'launch'", <<>>, <<>>)
          [] action.tool \in {"type_text", "click"} /\ action.selector ->
                IF running THEN Invoked("browser")
                ELSE Raised("Browser is not started.", <<>>, <<>>)
          [] action.tool \in {"type_text", "click"} /\ ~action.selector ->
                Invoked("os")
          [] action.tool = "scroll" ->
                Invoked("os")
          [] action.tool = "finish_task" ->
                \* AgentResponse(status=..., output=...) lacks the required
                \* fields thought and actions: pydantic raises inside the try
                Raised("validation error for AgentResponse", <<>>,
                       <<FinishedEntry(output)>>)
          [] OTHER ->
                Raised("Unknown tool", <<>>, <<>>)

\* The loop over the plan from position pos on.  raise_at is the position whose
\* backend operation raises (0: none does).  Gives the operations invoked, the
\* entries appended to history, and the error, None when every action succeeded.
RECURSIVE RunPlan(_, _, _, _)
RunPlan(plan, pos, running, raise_at) ==
    IF pos > Len(plan)
    THEN [calls |-> <<>>, hist |-> <<>>, error |-> None, results |-> <<>>]
    ELSE LET step == Dispatch(pos, plan[pos], running, raise_at = pos)
             rest == RunPlan(plan, pos + 1, running, raise_at)
         IN  IF step.outcome = "error"
             THEN [calls |-> step.call,
                   hist |-> step.hist
                        \o <<ErrorEntry(ExecError(plan[pos].tool, step.reason))>>,
                   error |-> ExecError(plan[pos].tool, step.reason),
                   results |-> <<>>]
             ELSE [calls |-> step.call \o rest.calls,
                   hist |-> step.hist \o rest.hist,
                   error |-> rest.error,
                   results |-> IF rest.error = None
                               THEN <<plan[pos].tool>> \o rest.results ELSE <<>>]

\* Execution without the safeguard for an empty plan
ExecutionUnguarded(plan, goal, running, raise_at) ==
    LET run == RunPlan(plan, 1, running, raise_at)
    IN  IF run.error # None
        THEN [calls |-> run.calls,
              hist |-> <<ExecutingEntry(goal)>> \o run.hist,
              returns |-> "error_message", value |-> run.error]
        ELSE [calls |-> run.calls,
              hist |-> <<ExecutingEntry(goal)>> \o run.hist \o <<SuccessEntry(goal)>>,
              returns |-> "execution_result", value |-> run.results]

\* What execution_node does with the state's plan: the operations it invokes,
\* what it appends to history, and the dict it returns: returns names the one
\* key of that dict, the other fields keep their values.
Execution(plan, goal, running, raise_at) ==
    LET run == RunPlan(plan, 1, running, raise_at)
    IN  IF plan = <<>>
        THEN [calls |-> <<>>,
              hist |-> <<ExecutingEntry(goal), ErrorEntry(NoValidPlan)>>,
              returns |-> "error_message", value |-> NoValidPlan]
        ELSE IF run.error # None
        THEN [calls |-> run.calls,
              hist |-> <<ExecutingEntry(goal)>> \o run.hist,
              returns |-> "error_message", value |-> run.error]
        ELSE [calls |-> run.calls,
              hist |-> <<ExecutingEntry(goal)>> \o run.hist \o <<SuccessEntry(goal)>>,
              returns |-> "execution_result", value |-> run.results]

-----------------------------------------------------------------------------
(* CloudMemoryManager *)

\* the entries given to add_memory
MemoryTexts == {"m1", "m2"}

\* A call of a method of memory_manager: the method, the session, the exception
\* the Mem0 client raised inside it (Absent: none), the exception the method
\* raised (Absent: it returned), and what it returned (Absent: it raised).
MemoryCall(op, session, client_raised, raised, returned) ==
    [op |-> op, session |-> session, client_raised |-> client_raised,
     raised |-> raised, returned |-> returned]

NoMemoryCall == MemoryCall("none", Absent, Absent, Absent, Absent)

\* add_memory without its except clause
add_memory_unguarded(session) ==
    /\ \E entry \in MemoryTexts, fails \in BOOLEAN :
         IF fails
         THEN /\ store' = store
              /\ memory_call' =
                    MemoryCall("add_memory", session, "Exception", "Exception", Absent)
         ELSE /\ Len(store[session]) < MaxMemories
              /\ store' = [store EXCEPT ![session] = Append(@, entry)]
              /\ memory_call' =
                    MemoryCall("add_memory", session, Absent, Absent, NoneStr)
    /\ UNCHANGED <<node, agent_state, controller_fields, calls, last_call, users,
                   screenshot_base64, screen, start_fields>>

\* memory_manager.add_memory(session_id, entry): client.add stores the entry
\* for the user, or raises (fails)
add_memory(session) ==
    /\ \E entry \in MemoryTexts, fails \in BOOLEAN :
         IF fails
         THEN /\ store' = store
              /\ memory_call' =
                    MemoryCall("add_memory", session, "Exception", Absent, NoneStr)
         ELSE /\ Len(store[session]) < MaxMemories
              /\ store' = [store EXCEPT ![session] = Append(@, entry)]
              /\ memory_call' =
                    MemoryCall("add_memory", session, Absent, Absent, NoneStr)
    /\ UNCHANGED <<node, agent_state, controller_fields, calls, last_call, users,
                   screenshot_base64, screen, start_fields>>

\* search_memory without its except clause
search_memory_unguarded(session) ==
    /\ \E fails \in BOOLEAN :
         memory_call' =
            IF fails
            THEN MemoryCall("search_memory", session, "Exception", "Exception", Absent)
            ELSE MemoryCall("search_memory", session, Absent, Absent, store[session])
    /\ UNCHANGED <<store, node, agent_state, controller_fields, calls, last_call, users,
                   screenshot_base64, screen, start_fields>>

\* memory_manager.search_memory(session_id, query): client.search gives the
\* user's records, or raises (fails)
search_memory(session) ==
    /\ \E fails \in BOOLEAN :
         memory_call' =
            IF fails
            THEN MemoryCall("search_memory", session, "Exception", Absent, <<>>)
            ELSE MemoryCall("search_memory", session, Absent, Absent, store[session])
    /\ UNCHANGED <<store, node, agent_state, controller_fields, calls, last_call, users,
                   screenshot_base64, screen, start_fields>>

-----------------------------------------------------------------------------
(* What the models and the memory store may return *)

\* the provider model_manager is constructed with, and the ways the vision
\* backend fails (Absent: it answers)
Providers == {"openai", "ollama"}
VisionFailures == {Absent, "connection error", "HTTP error status", "malformed response"}

\* analyze_screenshot: what it returns (Absent: it raises) and the exception it
\* raises (Absent: it returns).  The OpenAI branch catches Exception and
\* _extract_openai_text gives an error string for a response without text; the
\* Ollama branch catches httpx.RequestError alone, which neither the
\* HTTPStatusError of raise_for_status() nor the error of response.json() is.
\* The error strings are modelled without the provider's name.
analyze_screenshot(provider, failure) ==
    LET Returns(text) == [raised |-> Absent, returned |-> text]
        Raises(exc) == [raised |-> exc, returned |-> Absent]
    IN  IF failure = Absent THEN Returns("screen description")
        ELSE IF provider = "openai" \/ failure = "connection error"
        THEN Returns("Error: Could not get vision analysis")
        ELSE IF failure = "HTTP error status" THEN Raises("httpx.HTTPStatusError")
        ELSE Raises("json.JSONDecodeError")

\* the strings analyze_screenshot returns
Analyses ==
    { analyze_screenshot(provider, failure).returned :
        provider \in Providers, failure \in VisionFailures } \ {Absent}

\* generate_thought_and_action: any text.  In the agent loop: one document, bare
\* or fenced, with a plan over one element for each way the dispatcher treats
\* an action, and the documents the parser refuses.
LoopElements ==
    { WellFormed("navigate", FALSE, Absent),
      WellFormed("click", TRUE, Absent),
      WellFormed("scroll", FALSE, Absent),
      WellFormed("finish_task", FALSE, "r1"),
      WellFormed("hover", FALSE, Absent) }

LoopDocs ==
    { JsonObject("g1", TRUE, TRUE, p) : p \in SeqsUpTo(LoopElements, MaxPlanLen) }
        \cup { JsonObject("g1", TRUE, TRUE, <<e>>) : e \in MalformedElements }
        \cup OddDocs

ReasoningOutputs ==
    { <<d>> : d \in LoopDocs } \cup { Wrap(<<d>>) : d \in OddDocs }

\* initial histories that hold more than the store's records
MemoriesAndTrace ==
    { <<>>, <<MemoryEntry>>, <<MemoryEntry, VisionEntry("screen description")>> }

\* search_memory: the records seeding history
Memories == { <<>>, <<MemoryEntry>> }

-----------------------------------------------------------------------------
(* The graph *)

Init ==
    /\ pc = [caller \in Callers |-> "idle"]
    /\ acquired = NothingAcquired
    /\ screenshot_base64 = 0
    /\ screen = 0
    /\ store = [session \in SessionIds |-> <<>>]
    /\ memory_call = NoMemoryCall
    /\ node = "vision_node"
    /\ history \in Memories
    /\ vision_analysis = NoneStr
    /\ abstract_plan_raw = <<>>
    /\ concrete_plan = <<>>
    /\ intermediate_goal = NoneStr
    /\ execution_result = None
    /\ error_message = None
    /\ final_response = None
    /\ previous_error = None
    /\ playwright = 0
    /\ browser = 0
    /\ page = 0
    /\ calls = <<>>
    /\ last_call = NoCall
    /\ users = {}

\* vision_node leaving error_message as it finds it
vision_node_keeping_error ==
    /\ UNCHANGED <<memory_fields, start_fields, screenshot_base64, screen>>
    /\ node = "vision_node"
    /\ Len(history) < MaxHistory
    /\ \E provider \in Providers, failure \in VisionFailures :
         LET answer == analyze_screenshot(provider, failure)
         IN  IF answer.raised # Absent
             THEN /\ node' = "raised"
                  /\ UNCHANGED <<history, vision_analysis, error_message,
                                 execution_result, intermediate_goal>>
             ELSE /\ history' = Append(history, VisionEntry(answer.returned))
                  /\ vision_analysis' = answer.returned
                  /\ error_message' = error_message
                  /\ execution_result' = None
                  /\ intermediate_goal' = NoneStr
                  /\ node' = "reasoning_node"
    /\ UNCHANGED <<abstract_plan_raw, concrete_plan, final_response, previous_error,
                   controller_fields, calls, last_call, users>>

\* vision_node starting history over with its own entry
vision_node_rewriting ==
    /\ UNCHANGED <<memory_fields, start_fields, screenshot_base64, screen>>
    /\ node = "vision_node"
    /\ Len(history) < MaxHistory
    /\ \E provider \in Providers, failure \in VisionFailures :
         LET answer == analyze_screenshot(provider, failure)
         IN  IF answer.raised # Absent
             THEN /\ node' = "raised"
                  /\ UNCHANGED <<history, vision_analysis, error_message,
                                 execution_result, intermediate_goal>>
             ELSE /\ history' = <<VisionEntry(answer.returned)>>
                  /\ vision_analysis' = answer.returned
                  /\ error_message' = None
                  /\ execution_result' = None
                  /\ intermediate_goal' = NoneStr
                  /\ node' = "reasoning_node"
    /\ UNCHANGED <<abstract_plan_raw, concrete_plan, final_response, previous_error,
                   controller_fields, calls, last_call, users>>

\* the provider is the one model_manager was constructed with; it is drawn at
\* each call, no property relating two calls of the vision model
vision_node ==
    /\ UNCHANGED <<memory_fields, start_fields, screenshot_base64, screen>>
    /\ node = "vision_node"
    /\ Len(history) < MaxHistory
    /\ \E provider \in Providers, failure \in VisionFailures :
         LET answer == analyze_screenshot(provider, failure)
         IN  IF answer.raised # Absent
             THEN /\ node' = "raised"
                  /\ UNCHANGED <<history, vision_analysis, error_message,
                                 execution_result, intermediate_goal>>
             ELSE /\ history' = Append(history, VisionEntry(answer.returned))
                  /\ vision_analysis' = answer.returned
                  /\ error_message' = None
                  /\ execution_result' = None
                  /\ intermediate_goal' = NoneStr
                  /\ node' = "reasoning_node"
    /\ UNCHANGED <<abstract_plan_raw, concrete_plan, final_response, previous_error,
                   controller_fields, calls, last_call, users>>

\* generate_thought_and_action: what it returns (Absent: it raises) and the
\* exception it raises (Absent: it returns).  fails: the backend fails;
\* answer: the text it gives when it does not.  The OpenAI branch catches Exception
\* and returns Fallback; the Ollama branch calls self._ollama_post_request,
\* which ModelManager does not define: AttributeError, which its
\* except RuntimeError does not catch, whatever the backend would answer.
generate_thought_and_action(provider, fails, answer) ==
    IF provider = "ollama"
    THEN [raised |-> "AttributeError", returned |-> Absent]
    ELSE [raised |-> Absent,
          returned |-> IF fails THEN <<Fallback>> ELSE answer]

\* reasoning_node with the reasoning backend answering one of the given texts
\* or failing, for histories shorter than longest.  The provider is drawn at
\* each call, as in vision_node.
reasoning(outputs, longest) ==
    /\ UNCHANGED <<memory_fields, start_fields, screenshot_base64, screen>>
    /\ node = "reasoning_node"
    /\ Len(history) < longest
    /\ previous_error' = error_message
    /\ \E provider \in Providers, fails \in BOOLEAN :
       \E answer \in IF fails \/ provider = "ollama" THEN {<<>>} ELSE outputs :
         LET raw_plan_str == generate_thought_and_action(provider, fails, answer)
         IN  IF raw_plan_str.raised # Absent
             THEN /\ node' = "raised"
                  /\ UNCHANGED <<history, abstract_plan_raw>>
             ELSE /\ history' = Append(history, RawOutputEntry(raw_plan_str.returned))
                  /\ abstract_plan_raw' = raw_plan_str.returned
                  /\ node' = "plan_validation_node"
    /\ UNCHANGED <<vision_analysis, concrete_plan, intermediate_goal, execution_result,
                   error_message, final_response, controller_fields, calls,
                   last_call, users>>

reasoning_node == reasoning(ReasoningOutputs, MaxHistory)

\* an exception the node does not catch ends the run of the graph: ainvoke
\* raises it ("raised"), no update is merged into the state
plan_validation_node ==
    /\ UNCHANGED <<memory_fields, start_fields, screenshot_base64, screen>>
    /\ node = "plan_validation_node"
    /\ IF Escapes(abstract_plan_raw) # Absent
       THEN /\ node' = "raised"
            /\ UNCHANGED <<concrete_plan, intermediate_goal, error_message>>
       ELSE LET update == PlanValidation(abstract_plan_raw)
            IN  /\ concrete_plan' = update.concrete_plan
                /\ intermediate_goal' = update.intermediate_goal
                /\ error_message' = update.error_message
                /\ node' = should_continue(update.error_message, update.concrete_plan)
    /\ UNCHANGED <<history, vision_analysis, abstract_plan_raw, execution_result,
                   final_response, previous_error, controller_fields, calls,
                   last_call, users>>

\* execution_node stopping browser_controller once it is through the plan
execution_node_stopping ==
    /\ UNCHANGED <<memory_fields, start_fields, screenshot_base64>>
    /\ node = "execution_node"
    /\ \E raise_at \in 0..Len(concrete_plan) :
         LET done == Execution(concrete_plan, intermediate_goal,
                               BrowserIsRunning(page, browser), raise_at)
         IN  /\ history' = history \o done.hist
             /\ screen' = IF Acted(done.calls) THEN 1 ELSE screen
             /\ calls' = done.calls
             /\ users' = {}
             /\ error_message' =
                    IF done.returns = "error_message" THEN done.value ELSE error_message
             /\ execution_result' =
                    IF done.returns = "execution_result" THEN done.value
                    ELSE execution_result
    /\ playwright' = 0
    /\ browser' = 0
    /\ page' = 0
    /\ node' = "vision_node"
    /\ UNCHANGED <<vision_analysis, abstract_plan_raw, concrete_plan, intermediate_goal,
                   final_response, previous_error, last_call>>

\* execution_node with its edge leading to reasoning_node
execution_node_to_reasoning ==
    /\ UNCHANGED <<memory_fields, start_fields, screenshot_base64>>
    /\ node = "execution_node"
    /\ \E raise_at \in 0..Len(concrete_plan) :
         LET done == Execution(concrete_plan, intermediate_goal,
                               BrowserIsRunning(page, browser), raise_at)
         IN  /\ history' = history \o done.hist
             /\ screen' = IF Acted(done.calls) THEN 1 ELSE screen
             /\ calls' = done.calls
             /\ users' = users \cup BrowserUsers(session_id, done.calls)
             /\ error_message' =
                    IF done.returns = "error_message" THEN done.value ELSE error_message
             /\ execution_result' =
                    IF done.returns = "execution_result" THEN done.value
                    ELSE execution_result
    /\ node' = "reasoning_node"
    /\ UNCHANGED <<vision_analysis, abstract_plan_raw, concrete_plan, intermediate_goal,
                   final_response, previous_error, controller_fields, last_call>>

execution_node ==
    /\ UNCHANGED <<memory_fields, start_fields, screenshot_base64>>
    /\ node = "execution_node"
    /\ \E raise_at \in 0..Len(concrete_plan) :
         LET done == Execution(concrete_plan, intermediate_goal,
                               BrowserIsRunning(page, browser), raise_at)
         IN  /\ history' = history \o done.hist
             /\ screen' = IF Acted(done.calls) THEN 1 ELSE screen
             /\ calls' = done.calls
             /\ users' = users \cup BrowserUsers(session_id, done.calls)
             /\ error_message' =
                    IF done.returns = "error_message" THEN done.value ELSE error_message
             /\ execution_result' =
                    IF done.returns = "execution_result" THEN done.value
                    ELSE execution_result
    /\ node' = "vision_node"
    /\ UNCHANGED <<vision_analysis, abstract_plan_raw, concrete_plan, intermediate_goal,
                   final_response, previous_error, controller_fields, last_call>>

\* start() without its check of self.page
start_unchecked ==
    /\ UNCHANGED <<memory_fields, start_fields, screenshot_base64, screen>>
    /\ playwright' = 1
    /\ browser' = 1
    /\ page' = 1
    /\ users' = {}
    /\ last_call' = LastCall("start", Absent, NoneStr, StartOps)
    /\ UNCHANGED <<node, agent_state, calls>>

\* BrowserController.start(), called on the module's browser_controller.  Each
\* of its three operations may raise (failing: its position in StartOps, 0 when
\* none does); start() has no handler, so the exception leaves it with the
\* handles assigned so far.
start ==
    /\ UNCHANGED <<memory_fields, start_fields, screenshot_base64, screen>>
    /\ IF page # 0
       THEN /\ UNCHANGED <<controller_fields, users>>
            /\ last_call' = LastCall("start", Absent, NoneStr, <<>>)
       ELSE \E failing \in 0..Len(StartOps) :
              /\ playwright' = IF failing = 1 THEN playwright ELSE 1
              /\ browser' = IF failing \in {1, 2} THEN browser ELSE 1
              /\ page' = IF failing = 0 THEN 1 ELSE page
              /\ users' = IF failing = 0 THEN {} ELSE users
              /\ last_call' =
                    IF failing = 0 THEN LastCall("start", Absent, NoneStr, StartOps)
                    ELSE LastCall("start", "Error", Absent, SubSeq(StartOps, 1, failing))
    /\ UNCHANGED <<node, agent_state, calls>>

\* stop() that does not clear self.page
stop_keeps_page ==
    /\ UNCHANGED <<memory_fields, start_fields, screenshot_base64, screen>>
    /\ playwright' = 0
    /\ browser' = 0
    /\ page' = page
    /\ users' = users
    /\ last_call' = LastCall("stop", Absent, NoneStr, StopOps(playwright, browser))
    /\ UNCHANGED <<node, agent_state, calls>>

\* BrowserController.stop(), called on the module's browser_controller;
\* browser.close() and playwright.stop() return
stop ==
    /\ UNCHANGED <<memory_fields, start_fields, screenshot_base64, screen>>
    /\ playwright' = 0
    /\ browser' = 0
    /\ page' = 0
    /\ users' = {}
    /\ last_call' = LastCall("stop", Absent, NoneStr, StopOps(playwright, browser))
    /\ UNCHANGED <<node, agent_state, calls>>

\* a call of start() that returns.  A start() that raised leaves page None, so
\* the dispatcher finds the controller as it finds one never started.
started == start /\ last_call'.raised = Absent

Next ==
    \/ vision_node
    \/ reasoning_node
    \/ plan_validation_node
    \/ execution_node
    \/ started
    \/ stop

Spec == Init /\ [][Next]_vars

-----------------------------------------------------------------------------
(* A run that is cancelled *)

GraphNodes == {"vision_node", "reasoning_node", "plan_validation_node", "execution_node"}

\* The task awaiting compiled_agent_graph.ainvoke is cancelled between two
\* nodes: CancelledError unwinds run_agentic_cycle and the endpoint, neither of
\* which has a finally clause or an exception handler that touches
\* browser_controller.
cancel ==
    /\ UNCHANGED <<memory_fields, start_fields, screenshot_base64, screen>>
    /\ node \in GraphNodes
    /\ node' = "cancelled"
    /\ UNCHANGED <<agent_state, controller_fields, calls, last_call, users>>

SpecCancel == Init /\ [][Next \/ cancel]_vars

-----------------------------------------------------------------------------
(* browser_controller on its own: its methods called in any order, and the   *)
(* execution_node of concurrent runs of the graph operating on it            *)

\* navigate, click, type_text and capture_and_encode without the call of
\* _ensure_browser_is_running
BrowserOpUnchecked(op, operations, swallows, value) ==
    /\ UNCHANGED <<memory_fields, start_fields, screenshot_base64>>
    /\ \E failing \in 0..Len(operations) :
          /\ last_call' =
              IF failing = 0 THEN LastCall(op, Absent, value, operations)
              ELSE IF swallows
              THEN LastCall(op, Absent, NoneStr, SubSeq(operations, 1, failing))
              ELSE LastCall(op, "PlaywrightError", Absent, SubSeq(operations, 1, failing))
          /\ screen' = IF failing = 0 /\ op \in ActingOps THEN 1 ELSE screen
    /\ UNCHANGED <<node, agent_state, calls, controller_fields, users>>

\* A method of BrowserController that operates on the page: the check, then the
\* Playwright operations in order, of which one may raise PlaywrightError
\* (failing: its position, 0 when none does).  swallows: the method returns
\* None on PlaywrightError instead of raising it again.
BrowserOp(op, operations, swallows, value) ==
    /\ UNCHANGED <<memory_fields, start_fields, screenshot_base64>>
    /\ IF ~BrowserIsRunning(page, browser)
       THEN last_call' = LastCall(op, NotStarted, Absent, <<>>) /\ screen' = screen
       ELSE \E failing \in 0..Len(operations) :
              /\ last_call' =
                  IF failing = 0 THEN LastCall(op, Absent, value, operations)
                  ELSE IF swallows
                  THEN LastCall(op, Absent, NoneStr, SubSeq(operations, 1, failing))
                  ELSE LastCall(op, "PlaywrightError", Absent,
                                SubSeq(operations, 1, failing))
              /\ screen' = IF failing = 0 /\ op \in ActingOps THEN 1 ELSE screen
    /\ UNCHANGED <<node, agent_state, calls, controller_fields, users>>

navigate == BrowserOp("navigate", <<"page.goto">>, FALSE, NoneStr)

click == BrowserOp("click", <<"page.wait_for_selector", "page.click">>, FALSE, NoneStr)

type_text ==
    BrowserOp("type_text", <<"page.wait_for_selector", "page.fill">>, FALSE, NoneStr)

capture_and_encode ==
    BrowserOp("capture_and_encode", <<"page.screenshot">>, TRUE, "screenshot bytes")

\* the validated plans should_continue sends to execution_node
SessionPlans ==
    { ValidatedActions(p) :
        p \in SeqsUpTo({ e \in LoopElements : e.tool # "finish_task" }, MaxPlanLen) }
        \ { <<>> }

\* execution_node of the run of the graph for the given session, on that run's
\* validated plan.  Every run uses the module's one browser_controller; the
\* run's own AgentState is not part of this model's state.
session_execution(session) ==
    /\ UNCHANGED <<memory_fields, start_fields, screenshot_base64>>
    /\ \E plan \in SessionPlans, raise_at \in 0..MaxPlanLen :
         /\ raise_at <= Len(plan)
         /\ LET done == Execution(plan, "g1", BrowserIsRunning(page, browser), raise_at)
            IN  /\ calls' = done.calls
                /\ screen' = IF Acted(done.calls) THEN 1 ELSE screen
                /\ users' = users \cup BrowserUsers(session, done.calls)
    /\ UNCHANGED <<node, agent_state, controller_fields, last_call>>

InitController == Init /\ history = <<>>

NextController ==
    \/ start
    \/ stop
    \/ navigate
    \/ click
    \/ type_text
    \/ capture_and_encode
    \/ \E session \in SessionIds : session_execution(session)

SpecController == InitController /\ [][NextController]_vars

-----------------------------------------------------------------------------
(* memory_manager on its own: its two methods called for any session, the   *)
(* Mem0 client failing or not                                                *)

\* memory_manager as the module constructs it, nothing stored for the sessions
InitMemory == Init /\ history = <<>>

NextMemory ==
    \/ \E session \in SessionIds : add_memory(session)
    \/ \E session \in SessionIds : search_memory(session)

SpecMemory == InitMemory /\ [][NextMemory]_vars

-----------------------------------------------------------------------------
(* The loop over several cycles: the graph's nodes alone, the reasoning     *)
(* backend answering one text for each route should_continue takes and each *)
(* outcome of the dispatcher, so that a second cycle is reasoned through    *)

CycleOutputs ==
    { <<Prose>>,
      <<JsonObject("g1", TRUE, TRUE, <<>>)>>,
      <<JsonObject("g1", TRUE, TRUE, <<WellFormed("scroll", FALSE, Absent)>>)>>,
      <<JsonObject("g1", TRUE, TRUE, <<WellFormed("hover", FALSE, Absent)>>)>>,
      <<JsonObject("g1", TRUE, TRUE, <<WellFormed("finish_task", FALSE, "r1")>>)>> }

reasoning_cycle == reasoning(CycleOutputs, MaxCycleHistory)

NextCycles ==
    \/ vision_node
    \/ reasoning_cycle
    \/ plan_validation_node
    \/ execution_node

SpecCycles == Init /\ [][NextCycles]_vars

-----------------------------------------------------------------------------
(* start() called by concurrent tasks: each call runs up to its next await,  *)
(* where the event loop may switch to the other task                        *)

\* the call's first stretch: the check of self.page, and on to the first await
start_check(caller) ==
    /\ pc[caller] = "idle"
    /\ pc' = [pc EXCEPT ![caller] = IF page # 0 THEN "done"
                                    ELSE "async_playwright().start"]
    /\ UNCHANGED <<node, agent_state, controller_fields, calls, last_call, users,
                   memory_fields, screenshot_base64, screen, acquired>>

\* The await the call is suspended at ends: the operation has returned a
\* handle, which the call assigns before it runs on to its next await, or it
\* has raised, which ends the call with what it has assigned so far.
start_driver(caller) ==
    /\ pc[caller] = "async_playwright().start"
    /\ \E raises \in BOOLEAN :
         IF raises
         THEN /\ pc' = [pc EXCEPT ![caller] = "done"]
              /\ UNCHANGED <<playwright, acquired>>
         ELSE /\ playwright' = caller
              /\ acquired' = [acquired EXCEPT !.driver = @ + 1]
              /\ pc' = [pc EXCEPT ![caller] = "chromium.launch"]
    /\ UNCHANGED <<node, agent_state, browser, page, calls, last_call, users,
                   memory_fields, screenshot_base64, screen>>

start_launch(caller) ==
    /\ pc[caller] = "chromium.launch"
    /\ \E raises \in BOOLEAN :
         IF raises
         THEN /\ pc' = [pc EXCEPT ![caller] = "done"]
              /\ UNCHANGED <<browser, acquired>>
         ELSE /\ browser' = caller
              /\ acquired' = [acquired EXCEPT !.browser = @ + 1]
              /\ pc' = [pc EXCEPT ![caller] = "browser.new_page"]
    /\ UNCHANGED <<node, agent_state, playwright, page, calls, last_call, users,
                   memory_fields, screenshot_base64, screen>>

start_page(caller) ==
    /\ pc[caller] = "browser.new_page"
    /\ \E raises \in BOOLEAN :
         IF raises
         THEN UNCHANGED <<page, users, acquired>>
         ELSE /\ page' = caller
              /\ users' = {}
              /\ acquired' = [acquired EXCEPT !.page = @ + 1]
    /\ pc' = [pc EXCEPT ![caller] = "done"]
    /\ UNCHANGED <<node, agent_state, playwright, browser, calls, last_call,
                   memory_fields, screenshot_base64, screen>>

\* stop() is taken as one step between the stretches of the start() calls
NextStart ==
    \/ \E caller \in Callers : start_check(caller)
    \/ \E caller \in Callers : start_driver(caller)
    \/ \E caller \in Callers : start_launch(caller)
    \/ \E caller \in Callers : start_page(caller)
    \/ stop

SpecStart == InitController /\ [][NextStart]_vars

-----------------------------------------------------------------------------
(* The parser on its own: plan_validation_node applied to one raw text *)

\* two distinct documents the parser accepts
DocA == JsonObject("g1", TRUE, TRUE, <<WellFormed("scroll", FALSE, Absent)>>)
DocB == JsonObject("g1", TRUE, TRUE, <<WellFormed("finish_task", FALSE, "r1")>>)

\* every text of fences, prose and the two documents, up to MaxRawLen tokens
FenceTexts == SeqsUpTo({OPEN, CLOSE, Prose, DocA, DocB}, MaxRawLen)

\* every document, bare and fenced
DocTexts == { <<d>> : d \in Docs } \cup { Wrap(<<d>>) : d \in Docs }

ParserInputs == FenceTexts \cup DocTexts

InitParse ==
    /\ pc = [caller \in Callers |-> "idle"]
    /\ acquired = NothingAcquired
    /\ screenshot_base64 = 0
    /\ screen = 0
    /\ store = [session \in SessionIds |-> <<>>]
    /\ memory_call = NoMemoryCall
    /\ node = "plan_validation_node"
    /\ abstract_plan_raw \in ParserInputs
    /\ history = <<>>
    /\ vision_analysis = NoneStr
    /\ concrete_plan = <<>>
    /\ intermediate_goal = NoneStr
    /\ execution_result = None
    /\ error_message = None
    /\ final_response = None
    /\ previous_error = None
    /\ playwright = 0
    /\ browser = 0
    /\ page = 0
    /\ calls = <<>>
    /\ last_call = NoCall
    /\ users = {}

SpecParse == InitParse /\ [][plan_validation_node]_vars

-----------------------------------------------------------------------------
(* Notions the properties use *)

KnownTools == {"navigate", "type_text", "click", "scroll", "finish_task"}

\* position of the first action of the plan with a tool in the set, 0 if none
FirstWith(plan, tools) ==
    LET at == { i \in 1..Len(plan) : plan[i].tool \in tools }
    IN  IF at = {} THEN 0 ELSE Min(at)

\* the 'result' a finish_task action carries
FinishResult(action) ==
    IF action.result = Absent THEN "Task completed successfully." ELSE action.result

\* the Automation Session: Running, and holding no handle at all
Running == page # 0 /\ browser # 0
NoHandle == page = 0 /\ browser = 0 /\ playwright = 0

\* a step of the dispatcher, a step of validation that returns, and a step
\* that ends the loop
DispatcherStep == node = "execution_node" /\ node' = "vision_node"
ValidationStep == node = "plan_validation_node" /\ node' \notin {node, "raised"}
LoopEnds == node # "END" /\ node' = "END"

\* the operations invoked are those of plan positions 1..n, in order, none raising
PerformedUpTo(ops, plan, n) ==
    /\ Len(ops) = n
    /\ \A i \in 1..n :
          ops[i].pos = i /\ ops[i].tool = plan[i].tool /\ ~ops[i].raised

-----------------------------------------------------------------------------
(* Properties of the agent loop, checked under Spec *)

\* C1: for a validated plan whose first finish_task is at position k, the run
\* performs the actions before k in plan order, dispatches the finish_task,
\* performs nothing after it, and the dispatcher reports Finished: when the
\* loop has ended, the operations invoked are exactly those of the positions
\* before k and a final response is set.
C1_FinishAtK ==
    node = "END" =>
        LET k == FirstWith(concrete_plan, {"finish_task"})
        IN  /\ k > 0
            /\ PerformedUpTo(calls, concrete_plan, k - 1)
            /\ final_response # None

\* C2: final_response is absent before a finish_task is dispatched, is set to
\* the 'result' of that finish_task, and is present whenever the loop has ended.
C2_TerminalResult ==
    /\ final_response # None =>
          \E i \in 1..Len(history) :
              /\ history[i].kind = "Task finished with result"
              /\ final_response = <<"completed", history[i].msg[1]>>
    /\ node = "END" =>
          LET k == FirstWith(concrete_plan, {"finish_task"})
          IN  k > 0 /\ final_response = <<"completed", FinishResult(concrete_plan[k])>>

\* C3: the loop ends only by a step of the dispatcher that reported Finished;
\* no step of validation, perception or reasoning ends it.
C3_EndsOnlyFromDispatcher ==
    [][LoopEnds => node = "execution_node" /\ final_response' # None]_vars

\* C4: when the loop ends the Automation Session has been stopped and no
\* handle of it remains.
C4_StoppedAtEnd ==
    [][LoopEnds => page' = 0 /\ browser' = 0 /\ playwright' = 0]_vars

\* C5: when the dispatcher reaches an unrecognized tool at position k it has
\* performed the actions before k, fails with an error naming the tool, performs
\* nothing later, and the Automation Session is stopped afterwards.
C5_UnknownToolStops ==
    [][ /\ DispatcherStep
        /\ FirstWith(concrete_plan, Tools \ KnownTools) > 0
        /\ error_message' =
              ExecError(concrete_plan[FirstWith(concrete_plan, Tools \ KnownTools)].tool,
                        "Unknown tool")
        => /\ PerformedUpTo(calls', concrete_plan,
                            FirstWith(concrete_plan, Tools \ KnownTools) - 1)
           /\ page' = 0 /\ browser' = 0 /\ playwright' = 0 ]_vars

\* C6: when a backend action at position k raises, the dispatcher runs nothing
\* after k, stops the Automation Session and clears its handles, appends the
\* error to history and sets error_message to the failure message.
C6_BackendErrorStops ==
    [][ /\ DispatcherStep
        /\ calls' # <<>>
        /\ calls'[Len(calls')].raised
        => /\ \A i \in 1..Len(calls') : calls'[i].pos <= calls'[Len(calls')].pos
           /\ error_message' # None
           /\ history'[Len(history')] = ErrorEntry(error_message')
           /\ page' = 0 /\ browser' = 0 /\ playwright' = 0 ]_vars

C8_EmptyPlanFailsFast ==
    [][ DispatcherStep /\ concrete_plan = <<>>
        => /\ error_message' = NoValidPlan
           /\ calls' = <<>>
           /\ execution_result' = execution_result
           /\ final_response' = final_response
           /\ history'[Len(history')] = ErrorEntry(NoValidPlan)
           /\ UNCHANGED controller_fields ]_vars

C8_Witness ==
    /\ node = "vision_node"
    /\ concrete_plan = <<>>
    /\ error_message = NoValidPlan
    /\ Running

-----------------------------------------------------------------------------
(* Properties of the parser, checked under SpecParse *)

Validated == node # "plan_validation_node"

\* the state's raw text is one document, bare or in one fence; the document
IsPayloadText(text) ==
    \/ Len(text) = 1
    \/ /\ Len(text) = 3
       /\ text[1].kind = "open"
       /\ text[Len(text)].kind = "close"
Payload(text) == IF Len(text) = 1 THEN text[1] ELSE text[Len(text) - 1]

IsPlanPayload(d) ==
    d.kind = "json" /\ d.is_object /\ d.goal # Absent /\ d.has_plan /\ d.plan_is_list

HasBothKeys(e) == e.is_dict /\ e.has_tool /\ e.has_parameters
Accepted(e) == HasBothKeys(e) /\ e.params_is_dict

SameActions(actions, elements) ==
    /\ Len(actions) = Len(elements)
    /\ \A i \in 1..Len(elements) :
          actions[i] = ActionDetail(elements[i].tool, elements[i].selector,
                                    elements[i].result)

\* the parser has run on a text holding a decodable plan payload
ParsedPlanPayload ==
    /\ Validated
    /\ IsPayloadText(abstract_plan_raw)
    /\ IsPlanPayload(Payload(abstract_plan_raw))

SameOutcome(text) ==
    IF node = "raised"
    THEN Escapes(text) # Absent
    ELSE /\ Escapes(text) = Absent
         /\ concrete_plan = PlanValidation(text).concrete_plan
         /\ intermediate_goal = PlanValidation(text).intermediate_goal
         /\ (error_message = None) = (PlanValidation(text).error_message = None)

FenceFree(text) == \A i \in 1..Len(text) : text[i].kind \notin {"open", "close"}

\* the text is a fence around the rest, and the rest
IsWrapped(text) ==
    Len(text) >= 2 /\ text[1].kind = "open" /\ text[Len(text)].kind = "close"
Unwrapped(text) == SubSeq(text, 2, Len(text) - 1)

\* positions i..j of the text are a fenced block: an opening fence, a
\* non-empty fence-free content, a closing fence
IsBlock(text, i, j) ==
    /\ i + 1 < j
    /\ text[i].kind = "open" /\ text[j].kind = "close"
    /\ FenceFree(SubSeq(text, i + 1, j - 1))

\* the text holds at least two fenced blocks, one after the other
SeveralBlocks(text) ==
    \E i, j, k, l \in 1..Len(text) :
        j < k /\ IsBlock(text, i, j) /\ IsBlock(text, k, l)

\* the first fenced block: from the first opening fence to the first closing
\* fence after it
FirstBlock(text) ==
    LET first == Min({ i \in 1..Len(text) : text[i].kind = "open" })
        close == Min({ j \in 1..Len(text) : j > first /\ text[j].kind = "close" })
    IN  SubSeq(text, first + 1, close - 1)

\* C10: a payload in a fenced block parses as the payload itself does, and of
\* several fenced blocks the first is the one parsed.
C10_FirstFenceWins ==
    Validated =>
        /\ IsWrapped(abstract_plan_raw) /\ FenceFree(Unwrapped(abstract_plan_raw))
              => SameOutcome(Unwrapped(abstract_plan_raw))
        /\ SeveralBlocks(abstract_plan_raw)
              => SameOutcome(FirstBlock(abstract_plan_raw))

\* the first half of C10 alone, which the parser meets
C10_SingleFenceTransparent ==
    Validated /\ IsWrapped(abstract_plan_raw) /\ FenceFree(Unwrapped(abstract_plan_raw))
        => SameOutcome(Unwrapped(abstract_plan_raw))

\* C11: a decodable payload object lacking 'intermediate_goal' is accepted with
\* the goal "N/A" and its actions kept, and one lacking 'plan' is accepted with
\* an empty action sequence.
C11_DefaultsForMissingKeys ==
    /\ Validated
    /\ IsPayloadText(abstract_plan_raw)
    /\ Payload(abstract_plan_raw).kind = "json"
    /\ Payload(abstract_plan_raw).is_object
    => LET d == Payload(abstract_plan_raw)
       IN  /\ /\ d.goal = Absent /\ d.has_plan /\ d.plan_is_list
              /\ \A i \in 1..Len(d.plan) : Accepted(d.plan[i])
              => /\ error_message = None
                 /\ intermediate_goal = "N/A"
                 /\ SameActions(concrete_plan, d.plan)
           /\ ~d.has_plan
              => /\ error_message = None
                 /\ concrete_plan = <<>>

\* the parse of the state's text was refused: an empty plan, the error
\* recorded, the loop going on to reasoning_node
Refused ==
    /\ error_message # None
    /\ error_message[1] = "Failed to parse or validate plan object"
    /\ concrete_plan = <<>>
    /\ node = "reasoning_node"

\* C12: for every raw reasoning text plan validation returns and never raises;
\* a parse failure yields an empty plan and a recorded error, and the loop
\* goes on.
C12_ValidationNeverRaises ==
    Validated =>
        /\ node # "raised"
        /\ error_message # None => Refused

\* what of C12 the parser meets: a text json.loads decodes or rejects with
\* JSONDecodeError is either accepted or refused, and never raises
C12_RejectedTextsAreRefused ==
    Validated /\ LoadsError(StripFence(abstract_plan_raw)) # "RecursionError"
        => /\ node # "raised"
           /\ error_message # None => Refused
           /\ error_message = None => Decodable(StripFence(abstract_plan_raw))

-----------------------------------------------------------------------------
(* Properties of browser_controller, checked under SpecController *)

C14_StoppedIsTerminal ==
    [][ last_call.op = "stop" /\ last_call.performed # <<>>
        => ~(page' # 0 /\ browser' # 0) ]_vars

\* C15: start() on a Running controller is a no-op: it performs no Playwright
\* operation, acquires nothing and leaves the page, browser and driver handles
\* as they are.
C15_StartWhenRunningIsNoOp ==
    [][ start /\ Running
        => /\ UNCHANGED controller_fields
           /\ last_call' = LastCall("start", Absent, NoneStr, <<>>) ]_vars

C15_Witness ==
    /\ Running
    /\ last_call = LastCall("start", Absent, NoneStr, <<>>)

\* C16: navigate, click, type_text and capture_and_encode, called while the
\* controller is not Running, raise the not-started error, perform no
\* Playwright operation and leave the controller's fields as they are.
C16_NotRunningFails ==
    [][ (navigate \/ click \/ type_text \/ capture_and_encode) /\ ~Running
        => /\ last_call'.raised = NotStarted
           /\ last_call'.performed = <<>>
           /\ UNCHANGED controller_fields ]_vars

C16_Witness ==
    /\ last_call = LastCall("capture_and_encode", NotStarted, Absent, <<>>)
    /\ NoHandle

\* C19: the page browser_controller holds is operated on by the execution_node
\* of one session only.
C19_ExclusiveSession == Cardinality(users) <= 1

-----------------------------------------------------------------------------
(* Further properties of the agent loop, checked under Spec and SpecCancel *)

\* the action operates on the browser: navigate, or click/type_text with a selector
BrowserTouching(action) ==
    \/ action.tool = "navigate"
    \/ action.tool \in {"type_text", "click"} /\ action.selector

\* the dispatcher can perform the action: a desktop action, or a browser action
\* that reaches a Running controller
Performable(action) ==
    \/ action.tool = "scroll"
    \/ action.tool \in {"type_text", "click"} /\ (action.selector => Running)

\* C17: the dispatcher starts the Automation Session lazily: when the first
\* action of the plan is browser-touching, the controller is Running when the
\* action is performed (started first if it was not) and the action is
\* performed on the browser.
C17_LazyStart ==
    [][ DispatcherStep /\ concrete_plan # <<>> /\ BrowserTouching(concrete_plan[1])
        => /\ page' # 0 /\ browser' # 0
           /\ calls' # <<>>
           /\ calls'[1].pos = 1 /\ calls'[1].backend = "browser" ]_vars

\* what of C17 the dispatcher meets: it never starts, restarts or stops the
\* controller, so a Running one is reused and no plan starts a session
C17_DispatcherLeavesController ==
    [][ DispatcherStep => UNCHANGED controller_fields ]_vars

\* C18: when every action of a non-empty plan is performed without raising,
\* the dispatcher returns a summary with one entry per action in plan order,
\* sets no error and final response, and leaves the controller as it was: a
\* Running session is still Running, with the same handles.
C18_SuccessSummary ==
    [][ /\ DispatcherStep
        /\ concrete_plan # <<>>
        /\ \A i \in 1..Len(concrete_plan) : Performable(concrete_plan[i])
        /\ \A j \in 1..Len(calls') : ~calls'[j].raised
        => /\ Len(execution_result') = Len(concrete_plan)
           /\ \A i \in 1..Len(concrete_plan) :
                 execution_result'[i] = concrete_plan[i].tool
           /\ PerformedUpTo(calls', concrete_plan, Len(concrete_plan))
           /\ error_message' = None
           /\ final_response' = None
           /\ history'[Len(history')] = SuccessEntry(intermediate_goal)
           /\ UNCHANGED controller_fields ]_vars

C18_Witness ==
    /\ node = "vision_node"
    /\ Len(concrete_plan) = 2
    /\ Len(execution_result) = 2
    /\ error_message = None
    /\ Running
    /\ \E j \in 1..Len(calls) : calls[j].backend = "browser"

\* C20: when a run is cancelled or aborted while the Automation Session is
\* Running, the session is stopped before the run unwinds: the step that ends
\* the run leaves no handle.
C20_StopOnCancel ==
    [][ /\ node \in GraphNodes
        /\ node' \in {"cancelled", "raised"}
        /\ Running
        => page' = 0 /\ browser' = 0 /\ playwright' = 0 ]_vars

-----------------------------------------------------------------------------
(* Errors and history across cycles, checked under Spec *)

\* history ends with the error entry of the dispatcher and, after it, the
\* observation of the cycle that follows
AfterFailedExecution ==
    /\ Len(history) >= 2
    /\ history[Len(history)].kind = "Vision Analysis"
    /\ history[Len(history) - 1].kind = "ERROR"

\* C21: when the execution of cycle n failed (unknown tool, backend error or
\* empty plan), the reasoning call of cycle n+1 is given that failure's message
\* as previous_error: the error_message reasoning_node reads when it is about
\* to run is the message the dispatcher recorded.
C21_ErrorReachesReasoning ==
    node = "reasoning_node" /\ AfterFailedExecution
        => error_message = history[Len(history) - 1].msg

\* history holds an ERROR entry for the error
Recorded(error) == \E i \in 1..Len(history) : history[i] = ErrorEntry(error)

\* C22: every error the state carries is recorded in history: whenever the
\* loop is about to reason again, to observe again, or has ended, with an
\* error in error_message (a parse failure, an empty plan, an unknown tool or
\* a backend failure), history holds an entry for that error.
C22_ErrorsAreRecorded ==
    node \in {"reasoning_node", "vision_node", "END"} /\ error_message # None
        => Recorded(error_message)

\* what of C22 the dispatcher meets: the error it returns is the last entry
\* of history
C22_DispatcherRecordsErrors ==
    [][ node = "execution_node" /\ node' # node /\ error_message' # None
        => history'[Len(history')] = ErrorEntry(error_message') ]_vars

IsPrefix(s, t) == Len(s) <= Len(t) /\ SubSeq(t, 1, Len(s)) = s

\* C23: history is append-only: across every transition the history before
\* it is a prefix of the history after it.
C23_HistoryAppendOnly == [][ IsPrefix(history, history') ]_vars

C23_Witness ==
    /\ node = "vision_node"
    /\ Len(history) >= 5
    /\ history[1] = MemoryEntry
    /\ history[2].kind = "Vision Analysis"
    /\ history[Len(history)].kind = "ERROR"

-----------------------------------------------------------------------------
(* Properties of memory_manager, checked under SpecMemory *)

\* C24: the memory operations are best-effort: whether or not the store
\* fails, add_memory returns normally, with None, and search_memory returns
\* normally, with the empty list when the store failed; a failed add leaves
\* the store as it was.
C24_MemoryBestEffort ==
    [][ \A session \in SessionIds :
          /\ add_memory(session)
                => /\ memory_call'.raised = Absent
                   /\ memory_call'.returned = NoneStr
                   /\ memory_call'.client_raised # Absent => store' = store
          /\ search_memory(session)
                => /\ memory_call'.raised = Absent
                   /\ memory_call'.client_raised # Absent
                        => memory_call'.returned = <<>>
                   /\ memory_call'.client_raised = Absent
                        => memory_call'.returned = store[session] ]_vars

C24_Witness ==
    /\ memory_call.op = "search_memory"
    /\ memory_call.client_raised # Absent
    /\ memory_call.raised = Absent
    /\ store[memory_call.session] # <<>>

-----------------------------------------------------------------------------
(* Perceiving, checked under Spec *)

\* C25: whatever way the vision backend fails (connection error, error status,
\* malformed response) and under either provider, the vision call returns a
\* string and does not raise: every run of vision_node completes, goes on to
\* reasoning_node and appends the string it was given to history.
C25_VisionNeverRaises ==
    [][ node = "vision_node" /\ node' # node
        => /\ node' = "reasoning_node"
           /\ history' = Append(history, VisionEntry(vision_analysis')) ]_vars

-----------------------------------------------------------------------------
(* A start() that fails, checked under SpecController *)

\* C26: when start() fails at any of its steps (the driver's start, the
\* browser's launch, the page's creation), no half-initialized session is
\* left: after the call the controller holds none of the driver, browser and
\* page handles.
C26_FailedStartHoldsNothing ==
    [][ start /\ last_call'.raised # Absent
        => playwright' = 0 /\ browser' = 0 /\ page' = 0 ]_vars

-----------------------------------------------------------------------------
(* The validated plan, checked under SpecParse *)

\* C27: after plan validation the plan's action sequence is empty only if the
\* parse failed, the error being recorded in error_message: a parse that
\* succeeds never yields an empty action sequence.
C27_EmptyPlanOnlyOnFailure ==
    Validated /\ node # "raised" /\ concrete_plan = <<>> => error_message # None

-----------------------------------------------------------------------------
(* The state a task starts from, checked under Spec *)

\* the state ainvoke is given: no node has run and no method of the controller
\* has been called
TaskStart ==
    /\ node = "vision_node"
    /\ vision_analysis = NoneStr
    /\ abstract_plan_raw = <<>>
    /\ last_call = NoCall

-----------------------------------------------------------------------------
(* After execution, checked under Spec *)

\* C29: after every execution, failed or succeeded, the next phase is
\* Perceiving: the dispatcher's step leads to vision_node and sets no final
\* response, so no outcome of execution ends the loop, and reasoning_node is
\* entered only by a vision call that appended its analysis to history, or
\* from plan validation, never from execution.
C29_ExecutionLeadsToPerceiving ==
    [][ /\ node = "execution_node" /\ node' # node
            => node' = "vision_node" /\ final_response' = None
        /\ node' = "reasoning_node" /\ node # node'
            => \/ node = "plan_validation_node"
               \/ /\ node = "vision_node"
                  /\ history' = Append(history, VisionEntry(vision_analysis')) ]_vars

C29_Witness ==
    /\ node = "reasoning_node"
    /\ Len(history) >= 2
    /\ history[Len(history)].kind = "Vision Analysis"
    /\ history[Len(history) - 1] = SuccessEntry("g1")
    /\ execution_result = None

\* a run of vision_node that returns
VisionStep == node = "vision_node" /\ node' = "reasoning_node"

\* C30: on every exit from Perceiving the fields of the previous cycle are
\* cleared: the error, the plan and the execution result are empty, and the
\* vision analysis is the one just obtained.
C30_PerceivingClearsCycleFields ==
    [][ VisionStep
        => /\ error_message' = None
           /\ concrete_plan' = <<>>
           /\ execution_result' = None
           /\ history'[Len(history')] = VisionEntry(vision_analysis') ]_vars

\* what of C30 vision_node meets: it clears the error, the execution result
\* and the intermediate goal, overwrites the analysis, and leaves the plan
C30_PerceivingKeepsPlan ==
    [][ VisionStep
        => /\ error_message' = None
           /\ execution_result' = None
           /\ intermediate_goal' = NoneStr
           /\ history'[Len(history')] = VisionEntry(vision_analysis')
           /\ concrete_plan' = concrete_plan ]_vars

-----------------------------------------------------------------------------
(* The error fed back to reasoning, checked under SpecCycles *)

ReasoningStep == node = "reasoning_node" /\ node' # node

-----------------------------------------------------------------------------
(* The image Perceiving analyses, checked under SpecCycles *)

\* C32: each entry to Perceiving captures the screen anew, and the vision call
\* analyses that capture: after a run of vision_node the capture the state
\* holds, which is the image the node gave to analyze_screenshot, is of the
\* screen as the actions executed so far have left it.
C32_FreshCaptureEachCycle ==
    [][ VisionStep => screenshot_base64' = screen ]_vars

\* what vision_node does with the capture: it analyses the one the run was
\* started with, and leaves it
C32_CaptureNeverRenewed ==
    [][ screenshot_base64' = screenshot_base64 ]_vars

-----------------------------------------------------------------------------
(* A failing reasoning backend, checked under SpecCycles *)

NoGoalOrPlan == "Response is not a JSON object with 'intermediate_goal' and 'plan' keys."

\* C33: the fallback text generate_thought_and_action returns when the
\* reasoning backend fails is always rejected by plan_validation_node, for its
\* missing 'intermediate_goal'; so while the backend keeps failing the loop
\* alternates reasoning_node and plan_validation_node: validation of the
\* fallback leads back to reasoning_node, not to execution_node, vision_node
\* or END, with nothing executed and nothing observed.
C33_FallbackIsRejected ==
    [][ node = "plan_validation_node" /\ abstract_plan_raw = <<Fallback>> /\ node' # node
        => /\ node' = "reasoning_node"
           /\ error_message' = ParseFailed(NoGoalOrPlan).error_message
           /\ concrete_plan' = <<>>
           /\ history' = history
           /\ calls' = calls /\ screen' = screen ]_vars

\* the backend has failed twice in a row: the fallback is being validated for
\* the second time, the reasoning call that returned it having been given the
\* rejection of the first
C33_Witness ==
    /\ node = "plan_validation_node"
    /\ abstract_plan_raw = <<Fallback>>
    /\ previous_error = ParseFailed(NoGoalOrPlan).error_message
    /\ Len(history) >= 3
    /\ history[Len(history)].kind = "LLM Raw Output"
    /\ history[Len(history) - 1].kind = "LLM Raw Output"

-----------------------------------------------------------------------------
(* finish_task and the final response, checked under Spec *)

-----------------------------------------------------------------------------
(* Concurrent calls of start(), checked under SpecStart *)

\* C35: when two calls of start() on the same controller interleave at their
\* awaits, at most one driver, one browser and one page are acquired in all:
\* no interleaving lets both calls pass the check of self.page and launch a
\* second browser whose handle overwrites the first.
C35_SingleLaunch ==
    acquired.driver <= 1 /\ acquired.browser <= 1 /\ acquired.page <= 1

====
